---- MODULE Spec2Model ----
(***************************************************************************)
(* Mode-dispatch core of the Mock-Capture-Proxy gateway (mcp-server.ts).   *)
(*                                                                         *)
(* Strings of the program whose characters matter (URLs, paths) are        *)
(* sequences of one-character strings, so that the prefix regex of         *)
(* pathRewrite and the mount-path matching of app.use("/api", ...) are     *)
(* computed character by character.  Bodies are sequences of tokens: a     *)
(* JSON body is the token sequence of its serialisation, an upstream body  *)
(* is a sequence of bytes.                                                 *)
(*                                                                         *)
(* Requests carry no body: the body parser (express.json, line 75) and the *)
(* access log (morgan, line 76) pass every request on unchanged.  The      *)
(* timestamp of a capture line (ts) is left out of the line.               *)
(***************************************************************************)
EXTENDS Integers, Sequences, FiniteSets, TLC

\* Bounds of the model.
NumReq == 2          \* requests the gateway receives in one run

ReqIds == 1..NumReq

(***************************************************************************)
(* Character strings.                                                      *)
(***************************************************************************)
\* Segment names are abbreviated ("/co" for "/company", "/cu" for "/customer",
\* "/in" for "/invoice", "/q" for "/query"); the routing prefix is spelled out.
API      == <<"/", "a", "p", "i">>
V3       == <<"/", "v", "3">>
COMPANY  == <<"/", "c", "o">>
N42      == <<"/", "4", "2">>
IDPARAM  == <<"/", "{", "i", "d", "}">>
CUSTOMER == <<"/", "c", "u">>
INVOICE  == <<"/", "i", "n">>
QUERY    == <<"/", "q">>
MOCKSEG  == <<"/", "m">>
XSEG     == <<"/", "x">>
HEALTH   == <<"/", "h", "e", "a", "l", "t", "h">>

StartsWith(s, p) == Len(s) >= Len(p) /\ SubSeq(s, 1, Len(p)) = p

DropPrefix(s, p) == SubSeq(s, Len(p) + 1, Len(s))

\* s contains p as a contiguous subsequence.
Contains(s, p) ==
    \E i \in 0..(Len(s) - Len(p)) : SubSeq(s, i + 1, i + Len(p)) = p

(***************************************************************************)
(* Environment (mcp-server.ts lines 38-43).                                *)
(***************************************************************************)
\* Values of the MCP_MODE environment variable; "" is the unset variable.
MCP_MODE_VALUES == {"", "mock", "proxy", "capture", "PROXY", "staging"}

ToLowerCase(s) == IF s = "PROXY" THEN "proxy" ELSE s

\* const MODE = (process.env.MCP_MODE || "mock").toLowerCase()
ModeOf(env) == ToLowerCase(IF env = "" THEN "mock" ELSE env)

\* Values of QBO_TOKEN; "" is the unset (or empty, falsy) variable.
QBO_TOKEN_VALUES == {"", "tok"}

(***************************************************************************)
(* The contract: the operations of the loaded OpenAPI document.            *)
(* required is the `required` list of the operation's query parameters,    *)
(* example the documented example response.                                *)
(***************************************************************************)
Json1(key, val) == <<"{", key, ":", val, "}">>

Operations == {
    [method |-> "GET", path |-> V3 \o COMPANY \o IDPARAM \o CUSTOMER,
     operationId |-> "getCustomers", required |-> <<>>,
     example |-> [status |-> 200, body |-> Json1("Customer", "[]")]],
    [method |-> "GET", path |-> V3 \o COMPANY \o IDPARAM \o QUERY,
     operationId |-> "query", required |-> <<"query", "minorversion">>,
     example |-> [status |-> 200, body |-> Json1("QueryResponse", "{}")]],
    [method |-> "GET", path |-> V3 \o COMPANY \o IDPARAM \o MOCKSEG,
     operationId |-> "mock", required |-> <<>>,
     example |-> [status |-> 201, body |-> Json1("Mock", "[]")]] }

OperationById(id) == CHOOSE op \in Operations : op.operationId = id

\* Split a path into its segments at "/".
RECURSIVE Split(_, _)
Split(s, acc) ==
    IF s = <<>> THEN acc
    ELSE IF Head(s) = "/" THEN Split(Tail(s), Append(acc, <<>>))
    ELSE IF acc = <<>> THEN Split(Tail(s), <<<<Head(s)>>>>)
    ELSE Split(Tail(s), [acc EXCEPT ![Len(acc)] = Append(@, Head(s))])

Segments(path) == Split(path, <<>>)

IsParam(seg) == seg # <<>> /\ Head(seg) = "{"

TemplateMatches(template, path) ==
    LET t == Segments(template)
        p == Segments(path)
    IN  /\ Len(t) = Len(p)
        /\ \A i \in 1..Len(t) : IF IsParam(t[i]) THEN p[i] # <<>> ELSE t[i] = p[i]

(***************************************************************************)
(* Express routing of app.use("/api", ...) (lines 154 and 159): a layer    *)
(* mounted at "/api" matches a URL that starts with "/api" followed by "/" *)
(* or by the end of the path, and the handler sees req.url with the mount  *)
(* path removed (req.originalUrl keeps it).                                *)
(***************************************************************************)
MountMatches(originalUrl) ==
    /\ StartsWith(originalUrl, API)
    /\ (Len(originalUrl) = Len(API) \/ originalUrl[Len(API) + 1] = "/")

MountStrip(originalUrl) ==
    IF Len(originalUrl) = Len(API) THEN <<"/">> ELSE DropPrefix(originalUrl, API)

(***************************************************************************)
(* OpenAPI backend: the handlers of api.register (lines 48-67) and the     *)
(* dispatch of api.handleRequest (line 160).                               *)
(***************************************************************************)
\* The names under which api.register stores the handlers: handleRequest
\* looks a route handler up by the operation's operationId in this table.
RegisteredHandlers == {"notImplemented", "notFound", "validationFail", "mock"}

NoOperation == [operationId |-> "<none>"]

\* router.matchOperation: the operation whose template and method match.  A
\* path that matches no template, and a path whose template exists under
\* another method only (405; no methodNotAllowed handler is registered), both
\* end in the notFound handler.
MatchOperation(method, path) ==
    IF \E op \in Operations : op.method = method /\ TemplateMatches(op.path, path)
    THEN CHOOSE op \in Operations : op.method = method /\ TemplateMatches(op.path, path)
    ELSE NoOperation

PathInContract(path) == \E op \in Operations : TemplateMatches(op.path, path)

\* The constraints of the operation that the request violates.
ViolatedConstraints(op, query) ==
    {op.required[i] : i \in {j \in 1..Len(op.required) : op.required[j] \notin query}}

\* c.validation.errors: the backend is constructed without ajvOpts (line 46), so
\* the schema validator runs with allErrors off and reports the first violated
\* constraint of the parameter schema only.
ValidationErrors(op, query) ==
    LET missing == {j \in 1..Len(op.required) : op.required[j] \notin query}
    IN  IF missing = {} THEN <<>>
        ELSE <<op.required[CHOOSE j \in missing : \A k \in missing : j <= k]>>

\* The tagged outcome of validation (spec 3: ValidationOutcome).
Outcome(method, path, query) ==
    LET op == MatchOperation(method, path)
    IN  IF op.operationId = NoOperation.operationId THEN "NotFound"
        ELSE IF ValidationErrors(op, query) # <<>> THEN "ValidationFailed"
        ELSE "Matched"

\* The handler api.handleRequest ends in.
HandlerFor(method, path, query) ==
    LET op == MatchOperation(method, path)
    IN  IF op.operationId = NoOperation.operationId THEN "notFound"
        ELSE IF ValidationErrors(op, query) # <<>> THEN "validationFail"
        ELSE IF op.operationId \in RegisteredHandlers THEN op.operationId
        ELSE "notImplemented"

\* api.mockResponseForOperation(operationId): { status, mock }.
mockResponseForOperation(operationId) ==
    IF \E op \in Operations : op.operationId = operationId
    THEN [status |-> OperationById(operationId).example.status,
          mock |-> OperationById(operationId).example.body]
    ELSE [status |-> 200, mock |-> <<"{", "}">>]

\* The mock handler (lines 55-66).
MockHandler(op) ==
    LET mockResponse == mockResponseForOperation(op.operationId)
    IN  [status |-> IF "status" \in DOMAIN mockResponse THEN mockResponse.status ELSE 200,
         body |-> IF "body" \in DOMAIN mockResponse THEN mockResponse.body
                  ELSE Json1("error", "Mock body not found")]

NotImplementedHandler == [status |-> 501, body |-> Json1("error", "Not implemented in MCP mock")]

\* NotFoundHandler with a fault: the status is left at its default.
NotFoundHandlerNoStatus == [status |-> 200, body |-> Json1("error", "Path not found in specification")]

NotFoundHandler == [status |-> 404, body |-> Json1("error", "Path not found in specification")]

ValidationFailHandler(errors) ==
    [status |-> 400, body |-> <<"{", "errors", ":">> \o errors \o <<"}">>]

\* The (status, body) api.handleRequest sends for a request.
HandleRequestResponse(method, path, query) ==
    LET op == MatchOperation(method, path)
        h == HandlerFor(method, path, query)
    IN  CASE h = "notFound" -> NotFoundHandler
          [] h = "validationFail" -> ValidationFailHandler(ValidationErrors(op, query))
          [] h = "mock" -> MockHandler(op)
          [] h = "notImplemented" -> NotImplementedHandler
          [] OTHER -> NotImplementedHandler

(***************************************************************************)
(* Forwarder: the proxy options (lines 99-153).                            *)
(***************************************************************************)
\* pathRewrite: pathStr.replace(/^\/api/, "")
pathRewrite(pathStr) == IF StartsWith(pathStr, API) THEN DropPrefix(pathStr, API) ELSE pathStr

\* The proxy joins the path of the target (QBO_BASE has none: "/") and the
\* rewritten req.url, collapsing the slashes between them.
UrlJoin(url) == IF url # <<>> /\ Head(url) = "/" THEN url ELSE <<"/">> \o url

\* proxyReqAuthorization with a fault: the token is set only when the caller
\* sent no Authorization header.
proxyReqAuthorizationKeepsCaller(token, callerAuth) ==
    IF token # "" /\ callerAuth = <<>> THEN <<"Bearer", token>> ELSE callerAuth

\* on.proxyReq: the Authorization header sent upstream.  The outgoing headers
\* start as a copy of the caller's; setHeader replaces the value.
proxyReqAuthorization(token, callerAuth) ==
    IF token # "" THEN <<"Bearer", token>> ELSE callerAuth

\* Buffer.concat(chunks)
RECURSIVE Concat(_)
Concat(chunks) == IF chunks = <<>> THEN <<>> ELSE Head(chunks) \o Concat(Tail(chunks))

\* .toString("utf8"): a byte that is no valid UTF-8 decodes to U+FFFD.
Utf8Decode(bytes) == [i \in 1..Len(bytes) |-> IF bytes[i] = "x80" THEN "uFFFD" ELSE bytes[i]]

\* CaptureLine with a fault: the line records req.url, which has lost the
\* mount path, instead of req.originalUrl.
CaptureLineReqUrl(req, resBody, status) ==
    [req |-> [method |-> req.method, url |-> MountStrip(req.originalUrl),
              headers |-> req.auth],
     res |-> [status |-> status, body |-> resBody]]

\* captureExchange (lines 79-95): the line appended to captures.ndjson.
CaptureLine(req, resBody, status) ==
    [req |-> [method |-> req.method, url |-> req.originalUrl, headers |-> req.auth],
     res |-> [status |-> status, body |-> resBody]]

(***************************************************************************)
(* Requests the callers send.                                              *)
(***************************************************************************)
CustomerUrl == API \o V3 \o COMPANY \o N42 \o CUSTOMER
InvoiceUrl  == API \o V3 \o COMPANY \o N42 \o INVOICE
QueryUrl    == API \o V3 \o COMPANY \o N42 \o QUERY
MockUrl     == API \o V3 \o COMPANY \o N42 \o MOCKSEG
ApiApiUrl   == API \o API \o XSEG
ApiaryUrl   == API \o <<"/", "a", "p", "i", "a", "r", "y">> \o XSEG

NoAuth == <<>>
CallerAuth == <<"Basic", "caller">>

Request(method, url, query, auth) ==
    [method |-> method, originalUrl |-> url, query |-> query, auth |-> auth]

\* Requests sent to a gateway that answers locally: one per outcome of the
\* contract (matched, unknown path, one and two violated constraints, the
\* operation named "mock"), the health path, a path that goes on with /apiary.
LocalSamples == {
    Request("GET", CustomerUrl, {}, NoAuth),
    Request("POST", InvoiceUrl, {}, NoAuth),
    Request("GET", QueryUrl, {}, NoAuth),
    Request("GET", QueryUrl, {"query"}, NoAuth),
    Request("GET", MockUrl, {}, NoAuth),
    Request("GET", ApiaryUrl, {}, CallerAuth),
    Request("GET", HEALTH, {}, NoAuth) }

\* Requests sent to a gateway that forwards: with and without a caller's
\* Authorization header, with a remainder that begins with /api or not.
ForwardSamples == {
    Request("GET", CustomerUrl, {}, NoAuth),
    Request("POST", ApiApiUrl, {}, CallerAuth),
    Request("GET", HEALTH, {}, NoAuth) }

NoRequest == Request("", <<>>, {}, NoAuth)

\* Responses of the upstream origin: status line and headers, then the body
\* as the chunks of bytes its data events deliver ("x80" is a byte that is
\* no valid UTF-8).
UpstreamResponses == {
    [status |-> 200, headers |-> "content-type: application/json",
     body |-> << <<"a">>, <<"x80">> >>],
    [status |-> 401, headers |-> "www-authenticate: Bearer",
     body |-> << >>] }

(***************************************************************************)
(* State.                                                                  *)
(***************************************************************************)
VARIABLES
    MODE,        \* the configured mode (line 40)
    QBO_TOKEN,   \* the configured bearer token, "" when none (line 43)
    alive,       \* the process is running (no uncaught exception so far)
    log,         \* the lines of captures.ndjson
    req,         \* req[r]: the inbound request r (method, originalUrl, ...)
    pc,          \* pc[r]: where the handling of r stands
    handledBy,   \* handledBy[r]: the /api middlewares that were invoked for r
    res,         \* res[r]: the caller's http.ServerResponse
    fw,          \* fw[r]: the forwarding session of r (proxyReq / proxyRes)
    phase,       \* "starting" (api.init pending), "listening", "exited"
    contract     \* the definition api.init left: "valid", "malformed", "none"

vars == <<MODE, QBO_TOKEN, alive, log, req, pc, handledBy, res, fw, phase, contract>>

env == <<MODE, QBO_TOKEN>>

\* What no request handler changes.
config == <<MODE, QBO_TOKEN, phase, contract>>

\* A fresh ServerResponse.  closed is res.closed: the connection to the caller
\* is gone.  status, headers and body are what the handlers have written with
\* writeHead, write and end; they reach the caller while the connection is
\* open.  starts counts the calls of writeHead, the one that throws included.
NoRes == [headersSent |-> FALSE, status |-> 0, headers |-> "", body |-> <<>>,
          ended |-> FALSE, closed |-> FALSE, starts |-> 0]

\* No forwarding session.  path, method, auth: the request sent upstream.
\* status, headers: the head of the upstream response.  sent: the chunks the
\* upstream has delivered so far, pending: those still to come.  chunks: the
\* array of the capture branch of on.proxyRes.  pipes: the number of
\* proxyRes.pipe(res) in effect.  recorded: the outcome of captureExchange
\* for this exchange ("no": not called, "yes": line appended, "failed": the
\* append threw).  failed: the upstream request has failed (error event).
NoFw == [path |-> <<>>, method |-> "", auth |-> NoAuth, status |-> 0, headers |-> "",
         sent |-> <<>>, pending |-> <<>>, chunks |-> <<>>, pipes |-> 0,
         recorded |-> "no", failed |-> FALSE]

\* The process before any request: environment read, nothing received.
Fresh ==
    /\ \E e \in MCP_MODE_VALUES : MODE = ModeOf(e)
    /\ QBO_TOKEN \in QBO_TOKEN_VALUES
    /\ alive = TRUE
    /\ log = <<>>
    /\ req = [r \in ReqIds |-> NoRequest]
    /\ pc = [r \in ReqIds |-> "idle"]
    /\ handledBy = [r \in ReqIds |-> {}]
    /\ res = [r \in ReqIds |-> NoRes]
    /\ fw = [r \in ReqIds |-> NoFw]

\* The gateway once startServer has run with a valid contract: listening.
Init == Fresh /\ phase = "listening" /\ contract = "valid"

\* The process as started (line 178): startServer awaits api.init.
InitStart == Fresh /\ phase = "starting" /\ contract = "none"

\* The process accepts and handles requests.
Serving == alive /\ phase = "listening"

(***************************************************************************)
(* ServerResponse primitives.  Each yields the new response; writeHead on  *)
(* a response whose headers were sent throws (ERR_HTTP_HEADERS_SENT).      *)
(***************************************************************************)
WriteHeadThrows(r) == r.headersSent

WriteHead(r, status, headers) ==
    [r EXCEPT !.headersSent = TRUE, !.status = status, !.headers = headers,
              !.starts = @ + 1]

\* A writeHead that throws: the call is made, the response is as it was.
WriteHeadThrown(r) == [r EXCEPT !.starts = @ + 1]

\* write sends the head that was set if none was sent yet.
Write(r, chunk) == [r EXCEPT !.body = @ \o chunk, !.headersSent = TRUE]

End(r, body) == [Write(r, body) EXCEPT !.ended = TRUE]

\* res.status(s).json(b) with a fault: the body also carries the number of
\* requests completed so far.
SendJsonCounting(r, status, body) ==
    End(WriteHead(r, status, "content-type: application/json"),
        Append(body, Cardinality({q \in ReqIds : pc[q] = "done"})))

\* res.status(s).json(b) of Express.
SendJson(r, status, body) == End(WriteHead(r, status, "content-type: application/json"), body)

\* The caller has received a complete response.
Answered(r) == res[r].ended /\ ~res[r].closed

(***************************************************************************)
(* Arrival of a request: Express runs the middleware chain in the order of *)
(* registration (lines 154, 159, 168); the first layer that matches and    *)
(* does not call next() handles the request.                               *)
(***************************************************************************)
ProxyRegistered == MODE = "proxy" \/ MODE = "capture"          \* line 98

ApiRegistered == MODE = "mock" \/ MODE = "capture"             \* line 158

\* The requests the callers send to the gateway as configured.
SampleRequests == IF ProxyRegistered THEN ForwardSamples ELSE LocalSamples

\* Requests are numbered in the order of their arrival.
NextToArrive(r) == pc[r] = "idle" /\ \A q \in ReqIds : q < r => pc[q] # "idle"

\* The proxy middleware (line 154): rewrite req.url, open the upstream
\* request, fire on.proxyReq.  It never calls next().
ProxyMiddleware(r, q) ==
    /\ Serving /\ NextToArrive(r)
    /\ MountMatches(q.originalUrl) /\ ProxyRegistered
    /\ req' = [req EXCEPT ![r] = q]
    /\ handledBy' = [handledBy EXCEPT ![r] = @ \cup {"Forwarder"}]
    /\ fw' = [fw EXCEPT ![r] = [NoFw EXCEPT
                !.path = UrlJoin(pathRewrite(MountStrip(q.originalUrl))),
                !.method = q.method,
                !.auth = proxyReqAuthorization(QBO_TOKEN, q.auth)]]
    /\ pc' = [pc EXCEPT ![r] = "forwarded"]
    /\ UNCHANGED <<config, alive, log, res>>

\* The validate-and-mock middleware (lines 159-161): reached only when the
\* proxy middleware is not registered; it starts api.handleRequest.
ApiMiddleware(r, q) ==
    /\ Serving /\ NextToArrive(r)
    /\ MountMatches(q.originalUrl) /\ ~ProxyRegistered /\ ApiRegistered
    /\ req' = [req EXCEPT ![r] = q]
    /\ handledBy' = [handledBy EXCEPT ![r] = @ \cup {"Synthesizer"}]
    /\ pc' = [pc EXCEPT ![r] = "handleRequest"]
    /\ UNCHANGED <<config, alive, log, res, fw>>

\* healthCheckHandler (lines 165-168).
\* The health body with a fault: the mode reported is the default one.
HealthBodyDefaultMode == <<"{", "ok", ":", "true", "mode", ":", "mock", "}">>

HealthBody == <<"{", "ok", ":", "true", "mode", ":", MODE, "}">>

healthCheckHandler(r, q) ==
    /\ Serving /\ NextToArrive(r)
    /\ q.originalUrl = HEALTH /\ q.method = "GET"
    /\ req' = [req EXCEPT ![r] = q]
    /\ res' = [res EXCEPT ![r] = SendJson(@, 200, HealthBody)]
    /\ pc' = [pc EXCEPT ![r] = "done"]
    /\ UNCHANGED <<config, alive, log, handledBy, fw>>

\* No layer handles the request: the final handler of Express answers 404
\* with the text "Cannot <METHOD> <path>".
FinalHandler(r, q) ==
    /\ Serving /\ NextToArrive(r)
    /\ ~(MountMatches(q.originalUrl) /\ (ProxyRegistered \/ ApiRegistered))
    /\ ~(q.originalUrl = HEALTH /\ q.method = "GET")
    /\ req' = [req EXCEPT ![r] = q]
    /\ res' = [res EXCEPT ![r] =
                 End(WriteHead(@, 404, "content-type: text/html"),
                     <<"Cannot", q.method>> \o q.originalUrl)]
    /\ pc' = [pc EXCEPT ![r] = "done"]
    /\ UNCHANGED <<config, alive, log, handledBy, fw>>

(***************************************************************************)
(* api.handleRequest completes (line 160): the matched handler answers.    *)
(* With no usable definition no path matches and notFound answers.  When   *)
(* the handler or the validator throws, the promise rejects; the           *)
(* middleware neither awaits it nor passes next, so the rejection is       *)
(* unhandled, which ends the process (Node 18, line 207) with the request  *)
(* unanswered.                                                             *)
(***************************************************************************)
HandleRequest(r, throws) ==
    /\ Serving /\ pc[r] = "handleRequest"
    /\ IF throws
       THEN /\ alive' = FALSE
            /\ pc' = [pc EXCEPT ![r] = "threw"]
            /\ res' = res
       ELSE /\ alive' = alive
            /\ pc' = [pc EXCEPT ![r] = "done"]
            /\ LET a == IF contract = "valid"
                        THEN HandleRequestResponse(req[r].method,
                                                   MountStrip(req[r].originalUrl),
                                                   req[r].query)
                        ELSE NotFoundHandler
               IN  res' = [res EXCEPT ![r] = SendJson(@, a.status, a.body)]
    /\ UNCHANGED <<config, log, req, handledBy, fw>>

(***************************************************************************)
(* Events of the forwarding session.                                       *)
(***************************************************************************)
\* The option with a fault: left at its default in every mode.
selfHandleResponseOff == FALSE

\* Line 103: the proxy leaves the response to on.proxyRes in capture mode.
selfHandleResponse == MODE = "capture"

\* The proxy's own head: statusCode and setHeader, sent with the first write.
SetHead(r, status, headers) == [r EXCEPT !.status = status, !.headers = headers]

\* A pipe of proxyRes into res writes the chunk; n pipes write it n times.
PipeWrite(r, chunk, n) ==
    IF n = 2 THEN Write(Write(r, chunk), chunk)
    ELSE IF n = 1 THEN Write(r, chunk)
    ELSE r

\* on.proxyRes (lines 113-133): the capture branch starts buffering; the
\* other branch writes the head and pipes, unless the caller is gone.  Then
\* the proxy's own response handling: when selfHandleResponse is off it sets
\* the head if none was sent and, the response not being finished, pipes
\* proxyRes into res as well.
ProxyRes(r, u) ==
    /\ Serving /\ pc[r] = "forwarded"
    /\ LET buffers == MODE = "capture" /\ u.status # 0
           pipesHere == ~buffers /\ ~res[r].closed
           afterUser == IF pipesHere THEN WriteHead(res[r], u.status, u.headers)
                        ELSE res[r]
           afterProxy == IF ~afterUser.headersSent /\ ~selfHandleResponse
                         THEN SetHead(afterUser, u.status, u.headers)
                         ELSE afterUser
           pipes == (IF pipesHere THEN 1 ELSE 0)
                    + (IF ~selfHandleResponse /\ ~afterUser.ended THEN 1 ELSE 0)
       IN  /\ pc' = [pc EXCEPT ![r] = IF buffers THEN "buffering" ELSE "piping"]
           /\ fw' = [fw EXCEPT ![r].status = u.status, ![r].headers = u.headers,
                               ![r].pending = u.body, ![r].pipes = pipes]
           /\ res' = [res EXCEPT ![r] = afterProxy]
    /\ UNCHANGED <<config, alive, log, req, handledBy>>

\* proxyRes "data": the capture branch pushes the chunk onto the array of its
\* own closure (line 120); each pipe writes it to res.  A piped proxyRes
\* whose last pipe was removed is paused and emits nothing more.
ProxyData(r) ==
    /\ Serving
    /\ pc[r] = "buffering" \/ (pc[r] = "piping" /\ fw[r].pipes > 0)
    /\ fw[r].pending # <<>>
    /\ LET chunk == Head(fw[r].pending)
       IN  /\ fw' = [fw EXCEPT ![r].sent = Append(@, chunk),
                               ![r].pending = Tail(@),
                               ![r].chunks = IF pc[r] = "buffering" THEN Append(@, chunk)
                                             ELSE @]
           /\ res' = [res EXCEPT ![r] = PipeWrite(@, chunk, fw[r].pipes)]
    /\ UNCHANGED <<config, alive, log, req, pc, handledBy>>

\* proxyRes "end" in capture mode (lines 121-128): record, then relay.  The
\* append either succeeds or throws (appendOk = FALSE); an exception thrown
\* in the listener is uncaught and ends the process.
CaptureEnd(r, appendOk) ==
    /\ Serving /\ pc[r] = "buffering" /\ fw[r].pending = <<>>
    /\ LET body == Utf8Decode(Concat(fw[r].chunks))
       IN  IF ~appendOk
           THEN /\ alive' = FALSE
                /\ fw' = [fw EXCEPT ![r].recorded = "failed"]
                /\ UNCHANGED <<log, res, pc>>
           ELSE /\ log' = Append(log, CaptureLine(req[r], body, fw[r].status))
                /\ fw' = [fw EXCEPT ![r].recorded = "yes"]
                /\ pc' = [pc EXCEPT ![r] = "done"]
                /\ IF res[r].closed
                   THEN alive' = alive /\ res' = res
                   ELSE IF WriteHeadThrows(res[r])
                   THEN alive' = FALSE /\ res' = [res EXCEPT ![r] = WriteHeadThrown(@)]
                   ELSE /\ alive' = alive
                        /\ res' = [res EXCEPT ![r] =
                                     End(WriteHead(@, fw[r].status, fw[r].headers), body)]
    /\ UNCHANGED <<config, req, handledBy>>

\* proxyRes "end" in proxy mode: the pipe ends res.
PipeEnd(r) ==
    /\ Serving /\ pc[r] = "piping" /\ fw[r].pipes > 0 /\ fw[r].pending = <<>>
    /\ res' = [res EXCEPT ![r] = End(@, <<>>)]
    /\ pc' = [pc EXCEPT ![r] = "done"]
    /\ UNCHANGED <<config, alive, log, req, handledBy, fw>>

\* on.error (lines 134-151): the upstream request fails (unreachable origin,
\* timeout, connection reset), before the response or while its body arrives.
ProxyErrorBody == <<"{", "error", ":", "Proxy error", "details", ":", "err.message", "}">>

ProxyError(r) ==
    /\ Serving /\ pc[r] \in {"forwarded", "buffering", "piping"}
    /\ pc' = [pc EXCEPT ![r] = "done"]
    /\ IF res[r].closed
       THEN alive' = alive /\ res' = res
       ELSE IF WriteHeadThrows(res[r])
       THEN alive' = FALSE /\ res' = [res EXCEPT ![r] = WriteHeadThrown(@)]
       ELSE /\ alive' = alive
            /\ res' = [res EXCEPT ![r] =
                         End(WriteHead(@, 500, "content-type: application/json"),
                             ProxyErrorBody)]
    /\ fw' = [fw EXCEPT ![r].failed = TRUE]
    /\ UNCHANGED <<config, log, req, handledBy>>

\* The caller goes away before the response is complete: res emits "close",
\* on which the pipes into it are removed.
ConnClose(r) ==
    /\ Serving /\ pc[r] # "idle"
    /\ ~res[r].ended /\ ~res[r].closed
    /\ res' = [res EXCEPT ![r].closed = TRUE]
    /\ fw' = [fw EXCEPT ![r].pipes = 0]
    /\ UNCHANGED <<config, alive, log, req, pc, handledBy>>

(***************************************************************************)
(* Startup (lines 70-71, 170-181).  api.init with quick: true (line 46)    *)
(* does not validate the definition, so a document that is not a valid     *)
(* OpenAPI definition is accepted as it is.  For a document that cannot be *)
(* read or parsed the outcome lies in the library: init rejects, and the   *)
(* catch of line 178 exits with status 1, or it resolves with a warning    *)
(* and no definition.  Once init has resolved the server listens.          *)
(***************************************************************************)
Documents == {"valid", "malformed", "unreadable"}

StartServer(doc, rejects) ==
    /\ alive /\ phase = "starting"
    /\ IF doc = "unreadable" /\ rejects
       THEN /\ phase' = "exited"
            /\ alive' = FALSE
            /\ contract' = "none"
       ELSE /\ phase' = "listening"
            /\ alive' = alive
            /\ contract' = IF doc = "unreadable" THEN "none" ELSE doc
    /\ UNCHANGED <<env, log, req, pc, handledBy, res, fw>>

Next ==
    \/ \E r \in ReqIds, q \in SampleRequests : ProxyMiddleware(r, q)
    \/ \E r \in ReqIds, q \in SampleRequests : ApiMiddleware(r, q)
    \/ \E r \in ReqIds, q \in SampleRequests : healthCheckHandler(r, q)
    \/ \E r \in ReqIds, q \in SampleRequests : FinalHandler(r, q)
    \/ \E r \in ReqIds, throws \in BOOLEAN : HandleRequest(r, throws)
    \/ \E r \in ReqIds, u \in UpstreamResponses : ProxyRes(r, u)
    \/ \E r \in ReqIds : ProxyData(r)
    \/ \E r \in ReqIds, appendOk \in BOOLEAN : CaptureEnd(r, appendOk)
    \/ \E r \in ReqIds : PipeEnd(r)
    \/ \E r \in ReqIds : ProxyError(r)
    \/ \E r \in ReqIds : ConnClose(r)

Spec == Init /\ [][Next]_vars

\* The gateway from the start of the process.
NextStart ==
    \/ \E doc \in Documents, rejects \in BOOLEAN : StartServer(doc, rejects)
    \/ Next

SpecStart == InitStart /\ [][NextStart]_vars

(***************************************************************************)
(* Properties.                                                             *)
(***************************************************************************)
Arrived(r) == pc[r] # "idle"

UnderApi(r) == Arrived(r) /\ MountMatches(req[r].originalUrl)

RecognizedMode == MODE \in {"mock", "proxy", "capture"}

\* Request r was handled by api.handleRequest and its answer reached the caller.
MockAnswered(r) == UnderApi(r) /\ pc[r] = "done" /\ Answered(r)

OutcomeOf(r) == Outcome(req[r].method, MountStrip(req[r].originalUrl), req[r].query)

OperationOf(r) == MatchOperation(req[r].method, MountStrip(req[r].originalUrl))

\* The list of validation errors a 400 body carries.
ErrorsIn(body) == SubSeq(body, 4, Len(body) - 1)

\* C1: for every configured mode and every request under /api, exactly one of
\* the Synthesizer (api.handleRequest) and the Forwarder (the proxy
\* middleware) handles the request.
C1_ExactlyOneHandles ==
    \A r \in ReqIds : UnderApi(r) => Cardinality(handledBy[r]) = 1

\* C2: in mock mode a request whose validation outcome is Matched is answered
\* with the status and body the Synthesizer (the mock handler) produces for
\* the operation, and not with another handler's response.
C2_MatchedGetsSynthesized ==
    \A r \in ReqIds :
        (MODE = "mock" /\ MockAnswered(r) /\ OutcomeOf(r) = "Matched")
        => /\ res[r].status = MockHandler(OperationOf(r)).status
           /\ res[r].body = MockHandler(OperationOf(r)).body

\* C3 as stated: in mock mode a request whose path is absent from the contract
\* is answered 404 with a JSON error body that names the requested path.
C3_NotFoundNamesPath ==
    \A r \in ReqIds :
        (MODE = "mock" /\ MockAnswered(r)
         /\ ~PathInContract(MountStrip(req[r].originalUrl)))
        => /\ res[r].status = 404
           /\ Contains(res[r].body, MountStrip(req[r].originalUrl))

\* C3 as amended: in mock mode a request whose path is absent from the
\* contract is answered 404 with the fixed JSON error body
\* {"error": "Path not found in specification"}, which does not contain the
\* requested path.
C3_NotFoundFixedBody ==
    \A r \in ReqIds :
        (MODE = "mock" /\ MockAnswered(r)
         /\ ~PathInContract(MountStrip(req[r].originalUrl)))
        => /\ res[r].status = 404
           /\ res[r].headers = "content-type: application/json"
           /\ res[r].body = Json1("error", "Path not found in specification")
           /\ ~Contains(res[r].body, MountStrip(req[r].originalUrl))

C3_Witness ==
    \E r \in ReqIds :
        /\ MODE = "mock" /\ MockAnswered(r)
        /\ req[r].originalUrl = InvoiceUrl
        /\ ~PathInContract(MountStrip(req[r].originalUrl))

\* C4: in mock mode a request that matches a path template but violates the
\* contract is answered 400 with a list holding exactly one validation error
\* per violated constraint, and the Synthesizer (the mock handler) is not
\* invoked.
C4_OneErrorPerViolation ==
    \A r \in ReqIds :
        (MODE = "mock" /\ MockAnswered(r) /\ OutcomeOf(r) = "ValidationFailed")
        => /\ res[r].status = 400
           /\ HandlerFor(req[r].method, MountStrip(req[r].originalUrl), req[r].query)
                  # "mock"
           /\ Len(ErrorsIn(res[r].body))
                  = Cardinality(ViolatedConstraints(OperationOf(r), req[r].query))

\* C5: with a mode value that is none of mock, proxy, capture the gateway
\* behaves as in mock mode: a request under /api is handled by
\* api.handleRequest and answered by it, and nothing is forwarded.
C5_UnrecognizedModeIsMock ==
    \A r \in ReqIds :
        (~RecognizedMode /\ UnderApi(r))
        => /\ handledBy[r] = {"Synthesizer"}
           /\ (pc[r] = "done" /\ Answered(r)
               => LET a == HandleRequestResponse(req[r].method,
                                                 MountStrip(req[r].originalUrl),
                                                 req[r].query)
                  IN  res[r].status = a.status /\ res[r].body = a.body)

Forwarded(r) == "Forwarder" \in handledBy[r]

\* C6: in proxy and capture mode the path sent upstream is the inbound path
\* with the /api routing prefix removed exactly once and nothing else changed.
C6_PrefixStrippedOnce ==
    \A r \in ReqIds :
        Forwarded(r) => fw[r].path = MountStrip(req[r].originalUrl)

\* C7: for every forwarded request, with a token configured the Authorization
\* header sent upstream is exactly "Bearer <token>", whatever the caller
\* supplied; with none configured it is what the caller supplied (or absent).
C7_AuthorizationHeader ==
    \A r \in ReqIds :
        Forwarded(r)
        => IF QBO_TOKEN # "" THEN fw[r].auth = <<"Bearer", QBO_TOKEN>>
           ELSE fw[r].auth = req[r].auth

C7_Witness ==
    \E r, q \in ReqIds :
        /\ Forwarded(r) /\ req[r].auth = CallerAuth
        /\ Forwarded(q) /\ req[q].auth = NoAuth
        /\ QBO_TOKEN # ""

\* The exchange of r completes in this step: the upstream response has ended,
\* the record was written and the response was released to the caller.
CompletesExchange(r) ==
    /\ MODE = "capture"
    /\ fw[r].recorded = "no" /\ fw'[r].recorded = "yes"
    /\ res'[r].ended /\ ~res'[r].closed

\* C8: in capture mode every completed exchange appends exactly one line to the
\* capture log; its res.body and res.status are the body and status relayed to
\* the caller, its req.url and req.method those of the inbound request (the
\* URL with the /api prefix).
C8_OneLinePerExchange ==
    [][\A r \in ReqIds :
         CompletesExchange(r)
         => /\ Len(log') = Len(log) + 1
            /\ SubSeq(log', 1, Len(log)) = log
            /\ log'[Len(log')].res.body = res'[r].body
            /\ log'[Len(log')].res.status = res'[r].status
            /\ log'[Len(log')].req.url = req[r].originalUrl
            /\ log'[Len(log')].req.method = req[r].method]_vars

C8_Witness ==
    \E r \in ReqIds :
        /\ MODE = "capture" /\ fw[r].recorded = "yes"
        /\ res[r].ended /\ ~res[r].closed
        /\ res[r].status = 200 /\ Len(res[r].body) = 2
        /\ Len(log) >= 1

\* C9: in capture mode, when the append to the capture log fails, the caller
\* still receives the upstream status, headers and body, and the process keeps
\* serving.
C9_AppendFailureContained ==
    \A r \in ReqIds :
        fw[r].recorded = "failed"
        => /\ alive
           /\ (~res[r].closed
               => /\ res[r].ended
                  /\ res[r].status = fw[r].status
                  /\ res[r].headers = fw[r].headers
                  /\ res[r].body = Utf8Decode(Concat(fw[r].sent)))

\* C10: in proxy and capture mode every forwarding failure, at whatever point
\* of the exchange, yields a 5xx response with a JSON error body to the caller
\* and never ends the process.
C10_FailureYields5xx ==
    \A r \in ReqIds :
        fw[r].failed
        => /\ alive
           /\ (~res[r].closed
               => /\ res[r].ended
                  /\ res[r].status \in 500..599
                  /\ res[r].headers = "content-type: application/json")

\* C11: in proxy and capture mode no request under /api is sent upstream
\* unless api.handleRequest has validated it against the contract and the
\* outcome was Matched.
C11_ForwardedOnlyIfValidated ==
    \A r \in ReqIds :
        Forwarded(r) => "Synthesizer" \in handledBy[r] /\ OutcomeOf(r) = "Matched"

\* C12: the server listens only once the contract has loaded successfully: a
\* contract that fails to load or is malformed ends the process before it
\* listens, so no request is served against an unloaded or invalid contract.
C12_ListensOnlyAfterLoad ==
    /\ phase = "listening" => contract = "valid"
    /\ \A r \in ReqIds : Arrived(r) => contract = "valid"

IsHealthCheck(r) == Arrived(r) /\ req[r].originalUrl = HEALTH /\ req[r].method = "GET"

Untouched(r) ==
    /\ ~res[r].headersSent /\ ~res[r].ended
    /\ res[r].body = <<>> /\ res[r].starts = 0

\* A capture-mode exchange whose upstream request has not failed.
CaptureExchange(r) == MODE = "capture" /\ Forwarded(r) /\ ~fw[r].failed

\* C15: in capture mode, for an exchange, nothing is written to the caller's
\* response and no record is appended while the upstream body is still
\* arriving; the response is released only after the record was appended, and
\* then status, headers and the whole body are released together.
C15_RecordThenRelease ==
    /\ \A r \in ReqIds :
        CaptureExchange(r)
        => /\ pc[r] \in {"forwarded", "buffering"}
                => Untouched(r) /\ fw[r].recorded # "yes"
           /\ fw[r].recorded = "yes" => fw[r].pending = <<>> /\ fw[r].status # 0
           /\ ~Untouched(r)
                => /\ fw[r].recorded = "yes"
                   /\ res[r].ended /\ res[r].starts = 1
                   /\ res[r].status = fw[r].status
                   /\ res[r].headers = fw[r].headers
                   /\ res[r].body = Utf8Decode(Concat(fw[r].sent))
    /\ MODE = "capture" => Len(log) = Cardinality({r \in ReqIds : fw[r].recorded = "yes"})

\* An exchange whose body arrived in two chunks, recorded and released.
C15_Witness ==
    \E r \in ReqIds :
        /\ CaptureExchange(r)
        /\ Len(fw[r].sent) = 2
        /\ fw[r].recorded = "yes"
        /\ Answered(r)

\* C16: for every forwarded request and every interleaving of the upstream
\* response, its end, an upstream error and the caller's disconnect, no
\* handler starts the caller's response a second time: writeHead is called at
\* most once on it.
C16_NeverStartedTwice ==
    \A r \in ReqIds : Forwarded(r) => res[r].starts <= 1

\* A delegate failed while handling r: the handler run by api.handleRequest
\* threw, or the recorder's append threw.
DelegateFailed(r) == pc[r] = "threw" \/ fw[r].recorded = "failed"

\* C17: in every mode, a failure raised inside a delegate while a request is
\* handled yields a 5xx response with a JSON error payload for that request
\* (unless its caller is gone), and the process stays up.
C17_DelegateFailureContained ==
    \A r \in ReqIds :
        DelegateFailed(r)
        => /\ alive
           /\ ~res[r].closed
                => /\ res[r].ended
                   /\ res[r].status \in 500..599
                   /\ res[r].headers = "content-type: application/json"

\* The handler api.handleRequest runs for request r.
HandlerOf(r) == HandlerFor(req[r].method, MountStrip(req[r].originalUrl), req[r].query)

\* C18: for a matched operation whose contract entry carries an example, the
\* response the mock handler synthesizes has that example's status and that
\* example's body.
C18_SynthesisReturnsExample ==
    \A r \in ReqIds :
        (MODE = "mock" /\ MockAnswered(r) /\ HandlerOf(r) = "mock")
        => /\ res[r].status = OperationOf(r).example.status
           /\ res[r].body = OperationOf(r).example.body

\* C19: in proxy mode, at every moment of an upstream response, the caller
\* still connected has been sent the upstream status and headers unchanged
\* and every body chunk that has arrived, once each and in arrival order.
C19_RelayedOnceInOrder ==
    \A r \in ReqIds :
        (/\ MODE = "proxy" /\ Forwarded(r)
         /\ fw[r].status # 0 /\ ~fw[r].failed /\ ~res[r].closed)
        => /\ res[r].status = fw[r].status
           /\ res[r].headers = fw[r].headers
           /\ res[r].body = Concat(fw[r].sent)

\* C20: in capture mode, with several exchanges in flight, the body recorded
\* for an exchange and the body relayed to its caller are the concatenation
\* of exactly that exchange's upstream chunks in arrival order.
C20_OwnChunksConcatenated ==
    \A r \in ReqIds :
        (MODE = "capture" /\ fw[r].recorded = "yes")
        => /\ \E i \in 1..Len(log) :
                log[i] = CaptureLine(req[r], Concat(fw[r].sent), fw[r].status)
           /\ Answered(r) => res[r].body = Concat(fw[r].sent)

====
